---- MODULE Spec2Model ----
(***************************************************************************)
(* Model of the Proxi policy engine (src/src/guardrails/policy_engine.py): *)
(* PolicyEngine (current_mode, base_mode, validate, set_mode, grant /      *)
(* extend / revoke of temporary EMERGENCY) and TemporaryPermissionManager  *)
(* (is_active, expiry_time, timer, lock, _expire).                         *)
(*                                                                         *)
(* Threads.  The HTTP handlers of server.py are `async def` bodies without *)
(* an await, so the engine's public methods are called one at a time from  *)
(* one caller thread.  Every threading.Timer is a thread of its own.  The  *)
(* caller is modelled statement by statement (pc), because only the        *)
(* manager's methods take the lock: the engine's own fields current_mode   *)
(* and base_mode are read and written outside it, also by the expiry       *)
(* callback that runs on the timer thread.                                 *)
(*                                                                         *)
(* Time.  The clock `now` counts ticks; TicksPerSec ticks make one second. *)
(* Durations handed to the engine are whole seconds (int), datetime.now()  *)
(* is finer than a second, so int(...) in extend truncates.                *)
(***************************************************************************)
EXTENDS Integers, FiniteSets, Sequences, TLC

\* ---------------------------------------------------------------- bounds
TicksPerSec == 2
MaxTime == 6
MaxDur == 2
MaxExt == 1
MaxTimers == 2

\* Largest expiry time (in ticks) the model lets a grant or extension reach.
MaxExpiry == MaxTime + MaxDur * TicksPerSec

\* -------------------------------------------------------------- constants
None == -1
NORMAL == "NORMAL"
EMERGENCY == "EMERGENCY"

Tools == {"get_service_status", "restart_service", "delete_database", "list_services"}

\* Mode names a caller may pass to set_mode; "DEBUG" is defined by no document.
ModeNames == {NORMAL, EMERGENCY, "DEBUG"}

\* The demo's policy document: NORMAL is read-only, EMERGENCY adds restart.
DemoPolicy ==
    [ modes |-> [ m \in {NORMAL, EMERGENCY} |->
                    IF m = NORMAL
                    THEN [ allowed_tools |-> {"get_service_status"},
                           blocked_tools |-> {"restart_service", "delete_database"} ]
                    ELSE [ allowed_tools |-> {"get_service_status", "restart_service"},
                           blocked_tools |-> {"delete_database"} ] ],
      always_blocked |-> {"delete_database"} ]

\* A document whose lists overlap: restart_service is both allowed and blocked
\* in NORMAL, and the globally blocked tool is on EMERGENCY's allow list.
OverlapPolicy ==
    [ modes |-> [ m \in {NORMAL, EMERGENCY} |->
                    IF m = NORMAL
                    THEN [ allowed_tools |-> {"get_service_status", "restart_service"},
                           blocked_tools |-> {"restart_service"} ]
                    ELSE [ allowed_tools |-> {"get_service_status", "restart_service",
                                              "delete_database"},
                           blocked_tools |-> {} ] ],
      always_blocked |-> {"delete_database"} ]

Policies == {DemoPolicy, OverlapPolicy}

\* A document that defines a NORMAL mode only.
NormalOnlyPolicy ==
    [ modes |-> [ m \in {NORMAL} |->
                    [ allowed_tools |-> {"get_service_status", "list_services"},
                      blocked_tools |-> {"restart_service"} ] ],
      always_blocked |-> {"delete_database"} ]

\* Documents _load_policy accepts: any JSON document is loaded as it is.
Documents == Policies \cup {NormalOnlyPolicy}

TimerIds == 1..MaxTimers
\* A Timer thread: its position in Timer.run, its deadline and its `finished`
\* event ("no" while not set, else the engine call whose cancel() set it).
FreeTimer == [st |-> "free", deadline |-> 0, finished |-> "no"]
NoCall == [op |-> "none", name |-> "", secs |-> 0]
NoResult == [outcome |-> "none", mode |-> "", expires |-> None, revoked |-> FALSE,
             found_active |-> FALSE,
             is_active |-> FALSE, remaining_seconds |-> None,
             base_mode |-> "", current_mode |-> "",
             dispatched |-> "", response |-> ""]

VARIABLES
    policy,              \* PolicyEngine.policy (loaded once, never written again)
    current_mode,        \* PolicyEngine.current_mode
    base_mode,           \* PolicyEngine.base_mode
    is_active,           \* TemporaryPermissionManager.is_active
    expiry_time,         \* TemporaryPermissionManager.expiry_time (None or ticks)
    timer,               \* TemporaryPermissionManager.timer (0 = None, else a timer id)
    on_expiry_callback,  \* TemporaryPermissionManager.on_expiry_callback is set
    lock,                \* TemporaryPermissionManager.lock (0 = free, else holder)
    timers,              \* the threading.Timer threads
    now,                 \* datetime.now(), in ticks
    pc,                  \* the caller's position
    call,                \* the engine method being run (or last run) and its arguments
    remaining,           \* the caller's local `remaining` (ticks, None)
    vmode,               \* the current_mode validate read when it began (line 213 or 218)
    result               \* what the last call returned or raised: the outcome, the
                         \* mode a PolicyViolationError carries (or Allow prints),
                         \* the expiry time grant prints, whether revoke() ran
                         \* (it prints TEMPORARY PERMISSION REVOKED), whether
                         \* revoke_temporary_emergency found the grant active and
                         \* the four entries of get_temporary_status's dict; for
                         \* execute_tool also the tool function it called and the
                         \* ToolResponse it returned

vars == << policy, current_mode, base_mode, is_active, expiry_time, timer,
           on_expiry_callback, lock, timers, now, pc, call, remaining, vmode, result >>

manager == << is_active, expiry_time, timer, on_expiry_callback, timers >>
engine == << current_mode, base_mode >>

\* ------------------------------------------------ TemporaryPermissionManager

\* is_valid(): is_active and (expiry_time is None or now < expiry_time)
is_valid == is_active /\ (expiry_time = None \/ now < expiry_time)

\* Mutant of remaining_time: the difference is returned without max(0, ...).
remaining_time_NoFloor ==
    IF ~is_active \/ expiry_time = None THEN None ELSE expiry_time - now

\* remaining_time(): None if not active, else max(0, expiry_time - now)
remaining_time ==
    IF ~is_active \/ expiry_time = None
    THEN None
    ELSE IF expiry_time - now > 0 THEN expiry_time - now ELSE 0

\* threading.Timer.cancel(): sets the timer's `finished` event.  A timer still
\* waiting wakes up, sees the event and ends without calling its function; a
\* timer that already passed that test is not stopped.
Cancel(ts, i, by) ==
    IF i = 0 THEN ts
    ELSE IF ts[i].st = "waiting" THEN [ts EXCEPT ![i] = FreeTimer]
    ELSE [ts EXCEPT ![i].finished = by]

FreeSlots(ts) == {i \in TimerIds : ts[i].st = "free"}
FirstFree(ts) == CHOOSE i \in FreeSlots(ts) : \A j \in FreeSlots(ts) : i <= j

\* grant(duration_seconds, on_expiry), the body under the lock
grant(d) ==
    LET cancelled == Cancel(timers, timer, call.op)
        t == FirstFree(cancelled)
    IN  /\ is_active' = TRUE
        /\ expiry_time' = now + d * TicksPerSec
        /\ on_expiry_callback' = TRUE
        /\ timers' = [cancelled EXCEPT
                        ![t] = [st |-> "waiting", deadline |-> now + d * TicksPerSec,
                                finished |-> "no"]]
        /\ timer' = t

\* revoke(), the body under the lock, called by the engine call `by`
revoke(by) ==
    /\ timers' = Cancel(timers, timer, by)
    /\ timer' = 0
    /\ is_active' = FALSE
    /\ expiry_time' = None
    /\ UNCHANGED on_expiry_callback

\* ------------------------------------------------------------------- Init
\* PolicyEngine(policy_path) over one of the documents docs
Construct(docs) ==
    /\ policy \in docs
    /\ current_mode = NORMAL
    /\ base_mode = NORMAL
    /\ is_active = FALSE
    /\ expiry_time = None
    /\ timer = 0
    /\ on_expiry_callback = FALSE
    /\ lock = 0
    /\ timers = [i \in TimerIds |-> FreeTimer]
    /\ now = 0
    /\ pc = "idle"
    /\ call = NoCall
    /\ remaining = None
    /\ vmode = ""
    /\ result = NoResult

Init == Construct(Policies)

\* ------------------------------------------------------------ the clock
Tick ==
    /\ now < MaxTime
    /\ now' = now + 1
    /\ UNCHANGED << policy, engine, manager, lock, pc, call, remaining, vmode, result >>

\* ------------------------------------------------------ the timer threads

\* Timer.run: finished.wait(interval) times out and finished is not set
TimerFire(i) ==
    /\ timers[i].st = "waiting"
    /\ now >= timers[i].deadline
    /\ timers' = [timers EXCEPT ![i].st = "fired", ![i].deadline = 0]
    /\ UNCHANGED << policy, engine, is_active, expiry_time, timer, on_expiry_callback,
                    lock, now, pc, call, remaining, vmode, result >>

\* _expire: takes the lock and clears the manager's fields
Expire(i) ==
    /\ timers[i].st = "fired"
    /\ lock = 0
    /\ is_active' = FALSE
    /\ expiry_time' = None
    /\ timer' = 0
    /\ IF on_expiry_callback
       THEN /\ lock' = i
            /\ timers' = [timers EXCEPT ![i].st = "expiring"]
       ELSE /\ lock' = 0
            /\ timers' = [timers EXCEPT ![i] = FreeTimer]
    /\ UNCHANGED << policy, engine, on_expiry_callback, now, pc, call, remaining,
                    vmode, result >>

\* Mutant of OnExpiry: the callback calls a method of the manager, which takes
\* the lock _expire already holds.
OnExpiry_TakesLock(i) ==
    /\ timers[i].st = "expiring"
    /\ lock = 0
    /\ current_mode' = base_mode
    /\ lock' = 0
    /\ timers' = [timers EXCEPT ![i] = FreeTimer]
    /\ UNCHANGED << policy, base_mode, is_active, expiry_time, timer, on_expiry_callback,
                    now, pc, call, remaining, vmode, result >>

\* on_expiry, called by _expire while it holds the lock
OnExpiry(i) ==
    /\ timers[i].st = "expiring"
    /\ current_mode' = base_mode
    /\ lock' = 0
    /\ timers' = [timers EXCEPT ![i] = FreeTimer]
    /\ UNCHANGED << policy, base_mode, is_active, expiry_time, timer, on_expiry_callback,
                    now, pc, call, remaining, vmode, result >>

\* ------------------------------------------------------------ set_mode

\* Mutant of SetModeInvalid: the mode is assigned before its name is checked.
SetModeInvalid_AssignsFirst(m) ==
    /\ pc = "idle"
    /\ m \notin DOMAIN policy.modes
    /\ call' = [op |-> "set_mode", name |-> m, secs |-> 0]
    /\ result' = [NoResult EXCEPT !.outcome = "InvalidMode"]
    /\ current_mode' = m
    /\ UNCHANGED << policy, base_mode, manager, lock, now, pc, remaining, vmode >>

SetModeInvalid(m) ==
    /\ pc = "idle"
    /\ m \notin DOMAIN policy.modes
    /\ call' = [op |-> "set_mode", name |-> m, secs |-> 0]
    /\ result' = [NoResult EXCEPT !.outcome = "InvalidMode"]
    /\ UNCHANGED << policy, engine, manager, lock, now, pc, remaining, vmode >>

SetModeCheck(m) ==
    /\ pc = "idle"
    /\ m \in DOMAIN policy.modes
    /\ lock = 0
    /\ call' = [op |-> "set_mode", name |-> m, secs |-> 0]
    /\ result' = NoResult
    /\ pc' = IF is_valid THEN "sm_revoke" ELSE "sm_current"
    /\ UNCHANGED << policy, engine, manager, lock, now, remaining, vmode >>

SetModeRevoke ==
    /\ pc = "sm_revoke"
    /\ lock = 0
    /\ revoke("set_mode")
    /\ result' = [result EXCEPT !.revoked = TRUE]
    /\ pc' = "sm_current"
    /\ UNCHANGED << policy, engine, lock, now, call, remaining, vmode >>

SetModeCurrent ==
    /\ pc = "sm_current"
    /\ current_mode' = call.name
    /\ pc' = "sm_base"
    /\ UNCHANGED << policy, base_mode, manager, lock, now, call, remaining, vmode, result >>

SetModeBase ==
    /\ pc = "sm_base"
    /\ base_mode' = call.name
    /\ pc' = "idle"
    /\ result' = [result EXCEPT !.outcome = "ok"]
    /\ UNCHANGED << policy, current_mode, manager, lock, now, call, remaining, vmode >>

\* ------------------------------------------- grant_temporary_emergency

GrantBase(d) ==
    /\ pc = "idle"
    /\ FreeSlots(timers) # {}
    /\ call' = [op |-> "grant", name |-> "", secs |-> d]
    /\ result' = NoResult
    /\ base_mode' = current_mode
    /\ pc' = "g_current"
    /\ UNCHANGED << policy, current_mode, manager, lock, now, remaining, vmode >>

GrantCurrent ==
    /\ pc = "g_current"
    /\ current_mode' = EMERGENCY
    /\ pc' = "g_grant"
    /\ UNCHANGED << policy, base_mode, manager, lock, now, call, remaining, vmode, result >>

GrantGrant ==
    /\ pc = "g_grant"
    /\ lock = 0
    /\ grant(call.secs)
    /\ pc' = "idle"
    /\ result' = [NoResult EXCEPT !.outcome = "ok", !.expires = expiry_time']
    /\ UNCHANGED << policy, engine, lock, now, call, remaining, vmode >>

\* ------------------------------------------ extend_temporary_emergency

\* Mutant of ExtendCheck: the early return is missing.
ExtendCheck_NoReturn(e) ==
    /\ pc = "idle"
    /\ lock = 0
    /\ FreeSlots(timers) # {}
    /\ is_valid => expiry_time + e * TicksPerSec <= MaxExpiry
    /\ call' = [op |-> "extend", name |-> "", secs |-> e]
    /\ pc' = "x_remaining"
    /\ result' = NoResult
    /\ UNCHANGED << policy, engine, manager, lock, now, remaining, vmode >>

ExtendCheck(e) ==
    /\ pc = "idle"
    /\ lock = 0
    /\ is_valid => (FreeSlots(timers) # {} /\ expiry_time + e * TicksPerSec <= MaxExpiry)
    /\ call' = [op |-> "extend", name |-> "", secs |-> e]
    /\ IF is_valid
       THEN /\ pc' = "x_remaining"
            /\ result' = NoResult
       ELSE /\ pc' = "idle"
            /\ result' = [NoResult EXCEPT !.outcome = "noop"]
    /\ UNCHANGED << policy, engine, manager, lock, now, remaining, vmode >>

\* remaining = self.temp_permission.remaining_time() or 0
ExtendRemaining ==
    /\ pc = "x_remaining"
    /\ lock = 0
    /\ remaining' = IF remaining_time = None THEN 0 ELSE remaining_time
    /\ pc' = "x_grant"
    /\ UNCHANGED << policy, engine, manager, lock, now, call, vmode, result >>

\* new_duration = int(remaining + additional_seconds): whole seconds
new_duration(rem, e) == (rem + e * TicksPerSec) \div TicksPerSec

\* Mutant of ExtendGrant: the extension captures the base mode again, as
\* grant_temporary_emergency does.
ExtendGrant_Recapture ==
    /\ pc = "x_grant"
    /\ lock = 0
    /\ grant(new_duration(remaining, call.secs))
    /\ base_mode' = current_mode
    /\ pc' = "idle"
    /\ result' = [NoResult EXCEPT !.outcome = "extended", !.expires = expiry_time']
    /\ remaining' = None
    /\ UNCHANGED << policy, current_mode, lock, now, call, vmode >>

ExtendGrant ==
    /\ pc = "x_grant"
    /\ lock = 0
    /\ grant(new_duration(remaining, call.secs))
    /\ pc' = "idle"
    /\ result' = [NoResult EXCEPT !.outcome = "extended", !.expires = expiry_time']
    /\ remaining' = None
    /\ UNCHANGED << policy, engine, lock, now, call, vmode >>

\* ------------------------------------------ revoke_temporary_emergency

RevokeRevoke ==
    /\ pc = "idle"
    /\ lock = 0
    /\ call' = [op |-> "revoke", name |-> "", secs |-> 0]
    /\ result' = [NoResult EXCEPT !.revoked = TRUE, !.found_active = is_active]
    /\ revoke("revoke")
    /\ pc' = "r_current"
    /\ UNCHANGED << policy, engine, lock, now, remaining, vmode >>

RevokeCurrent ==
    /\ pc = "r_current"
    /\ current_mode' = base_mode
    /\ pc' = "idle"
    /\ result' = [result EXCEPT !.outcome = "ok"]
    /\ UNCHANGED << policy, base_mode, manager, lock, now, call, remaining, vmode >>

\* ------------------------------------------------------------ validate

\* Mutant of Stage: the global rules are not consulted.
Stage_NoGlobalRules(doc, mode, t) ==
    IF mode \notin DOMAIN doc.modes THEN "v_key_error"
    ELSE IF t \in doc.modes[mode].blocked_tools THEN "v_blocked_valid"
    ELSE IF t \notin doc.modes[mode].allowed_tools THEN "v_not_whitelisted"
    ELSE "v_allowed_valid"

\* Lines 209-243 before any call into the manager: the global rules, then the
\* lookup of the current mode's lists (a KeyError when the document does not
\* define the mode) and the two membership tests.  The result is the position
\* validate continues at.
Stage(doc, mode, t) ==
    IF t \in doc.always_blocked THEN "v_global"
    ELSE IF mode \notin DOMAIN doc.modes THEN "v_key_error"
    ELSE IF t \in doc.modes[mode].blocked_tools THEN "v_blocked_valid"
    ELSE IF t \notin doc.modes[mode].allowed_tools THEN "v_not_whitelisted"
    ELSE "v_allowed_valid"

\* Where validate returns (or raises) to: its caller is execute_tool or the
\* caller of the engine.
Return(c) == IF c.op = "execute_tool" THEN "e_validated" ELSE "idle"

\* validate(t) called with the result record r as it stands, by the call c
ValidateStart(t, c, r) ==
    /\ vmode' = current_mode
    /\ LET s == Stage(policy, current_mode, t)
       IN  IF s = "v_global"
           THEN /\ pc' = Return(c)
                /\ result' = [r EXCEPT !.outcome = "GloballyBlocked",
                                       !.mode = current_mode]
           ELSE IF s = "v_key_error"
           THEN /\ pc' = Return(c)
                /\ result' = [r EXCEPT !.outcome = "KeyError"]
           ELSE /\ pc' = s
                /\ result' = r

ValidateBegin(t) ==
    /\ pc = "idle"
    /\ call' = [op |-> "validate", name |-> t, secs |-> 0]
    /\ ValidateStart(t, call', NoResult)
    /\ UNCHANGED << policy, engine, manager, lock, now, remaining >>

\* Mutant of ValidateIsValid: a grant found past its expiry time is cleaned up.
ValidateIsValid_CleansUp ==
    /\ pc \in {"v_blocked_valid", "v_allowed_valid"}
    /\ lock = 0
    /\ pc' = IF pc = "v_blocked_valid"
             THEN (IF is_valid THEN "v_blocked_remaining" ELSE "v_blocked_raise")
             ELSE (IF is_valid THEN "v_allowed_remaining" ELSE "v_allow")
    /\ is_active' = is_valid
    /\ expiry_time' = IF is_valid THEN expiry_time ELSE None
    /\ UNCHANGED << policy, engine, timer, on_expiry_callback, timers, lock, now, call,
                    remaining, vmode, result >>

\* if self.temp_permission.is_valid(): (lines 225 and 246)
ValidateIsValid ==
    /\ pc \in {"v_blocked_valid", "v_allowed_valid"}
    /\ lock = 0
    /\ pc' = IF pc = "v_blocked_valid"
             THEN (IF is_valid THEN "v_blocked_remaining" ELSE "v_blocked_raise")
             ELSE (IF is_valid THEN "v_allowed_remaining" ELSE "v_allow")
    /\ UNCHANGED << policy, engine, manager, lock, now, call, remaining, vmode, result >>

\* remaining = self.temp_permission.remaining_time(), formatted with :.1f
\* (lines 226-227 and 247-248): formatting None raises TypeError
ValidateRemaining ==
    /\ pc \in {"v_blocked_remaining", "v_allowed_remaining"}
    /\ lock = 0
    /\ IF remaining_time = None
       THEN /\ pc' = Return(call)
            /\ result' = [result EXCEPT !.outcome = "TypeError"]
       ELSE /\ pc' = IF pc = "v_blocked_remaining" THEN "v_blocked_raise" ELSE "v_allow"
            /\ UNCHANGED result
    /\ UNCHANGED << policy, engine, manager, lock, now, call, remaining, vmode >>

\* raise PolicyViolationError(..., mode=self.current_mode, ...) (lines 229-243)
ValidateRaise ==
    /\ pc \in {"v_blocked_raise", "v_not_whitelisted"}
    /\ result' = [result EXCEPT
                    !.outcome = IF pc = "v_blocked_raise" THEN "BlockedInMode"
                                                          ELSE "NotWhitelisted",
                    !.mode = current_mode]
    /\ pc' = Return(call)
    /\ UNCHANGED << policy, engine, manager, lock, now, call, remaining, vmode >>

\* print(... allowed in {self.current_mode} mode); return True (lines 250-251)
ValidateAllow ==
    /\ pc = "v_allow"
    /\ result' = [result EXCEPT !.outcome = "Allow", !.mode = current_mode]
    /\ pc' = Return(call)
    /\ UNCHANGED << policy, engine, manager, lock, now, call, remaining, vmode >>

\* ------------------------------------------------- get_temporary_status

\* "is_active": self.temp_permission.is_valid() (line 188)
GetStatusValid ==
    /\ pc = "idle"
    /\ lock = 0
    /\ call' = [op |-> "get_status", name |-> "", secs |-> 0]
    /\ result' = [NoResult EXCEPT !.is_active = is_valid]
    /\ pc' = "s_remaining"
    /\ UNCHANGED << policy, engine, manager, lock, now, remaining, vmode >>

\* "remaining_seconds": self.temp_permission.remaining_time() (line 189)
GetStatusRemaining ==
    /\ pc = "s_remaining"
    /\ lock = 0
    /\ result' = [result EXCEPT !.remaining_seconds = remaining_time]
    /\ pc' = "s_base"
    /\ UNCHANGED << policy, engine, manager, lock, now, call, remaining, vmode >>

\* "base_mode": self.base_mode (line 190)
GetStatusBase ==
    /\ pc = "s_base"
    /\ result' = [result EXCEPT !.base_mode = base_mode]
    /\ pc' = "s_current"
    /\ UNCHANGED << policy, engine, manager, lock, now, call, remaining, vmode >>

\* "current_mode": self.current_mode (line 191), and the dict is returned
GetStatusCurrent ==
    /\ pc = "s_current"
    /\ result' = [result EXCEPT !.current_mode = current_mode,
                                 !.outcome = IF call.op = "execute_tool" THEN "none" ELSE "ok"]
    /\ pc' = IF call.op = "execute_tool" THEN "e_format" ELSE "idle"
    /\ UNCHANGED << policy, engine, manager, lock, now, call, remaining, vmode >>

\* ------------------------------------------------ execute_tool (server.py)

\* Lines 193-208: the request is unpacked and get_temporary_status is called;
\* its first read is is_valid().
ExecuteBegin(t) ==
    /\ pc = "idle"
    /\ lock = 0
    /\ call' = [op |-> "execute_tool", name |-> t, secs |-> 0]
    /\ result' = [NoResult EXCEPT !.is_active = is_valid]
    /\ pc' = "s_remaining"
    /\ UNCHANGED << policy, engine, manager, lock, now, remaining, vmode >>

\* Lines 210-211: `{temp_status['remaining_seconds']:.1f}` when is_active is
\* true; formatting None raises a TypeError nothing catches.
ExecuteFormat ==
    /\ pc = "e_format"
    /\ IF result.is_active /\ result.remaining_seconds = None
       THEN /\ pc' = "idle"
            /\ result' = [result EXCEPT !.outcome = "TypeError", !.response = "server_error"]
       ELSE /\ pc' = "e_validate"
            /\ UNCHANGED result
    /\ UNCHANGED << policy, engine, manager, lock, now, call, remaining, vmode >>

\* Line 215: policy_engine.validate(tool_name, arguments, context)
ExecuteValidate ==
    /\ pc = "e_validate"
    /\ ValidateStart(call.name, call, result)
    /\ UNCHANGED << policy, engine, manager, lock, now, call, remaining >>

PolicyViolations == {"GloballyBlocked", "BlockedInMode", "NotWhitelisted"}

\* Mutant of ExecuteValidated: a policy violation is reported but the tool is
\* dispatched all the same.
ExecuteValidated_DispatchesAnyway ==
    /\ pc = "e_validated"
    /\ IF result.outcome \in PolicyViolations \cup {"Allow"}
       THEN /\ pc' = "e_dispatch"
            /\ UNCHANGED result
       ELSE /\ pc' = "idle"
            /\ result' = [result EXCEPT !.response = "server_error"]
    /\ UNCHANGED << policy, engine, manager, lock, now, call, remaining, vmode >>

\* Lines 214-223: validate returned, raised a PolicyViolationError (caught:
\* success false, policy_violation true) or raised something else (not caught).
ExecuteValidated ==
    /\ pc = "e_validated"
    /\ IF result.outcome \in PolicyViolations
       THEN /\ pc' = "idle"
            /\ result' = [result EXCEPT !.response = "policy_violation"]
       ELSE IF result.outcome = "Allow"
       THEN /\ pc' = "e_dispatch"
            /\ UNCHANGED result
       ELSE /\ pc' = "idle"
            /\ result' = [result EXCEPT !.response = "server_error"]
    /\ UNCHANGED << policy, engine, manager, lock, now, call, remaining, vmode >>

\* Lines 226-238 and 241-261: the tool function is looked up and called; it
\* returns (success true) or raises (success false, not a policy violation).
ExecuteDispatch ==
    /\ pc = "e_dispatch"
    /\ \E r \in {"success", "execution_error"} :
           result' = [result EXCEPT !.dispatched = call.name, !.response = r]
    /\ pc' = "idle"
    /\ UNCHANGED << policy, engine, manager, lock, now, call, remaining, vmode >>

\* Whole seconds the server's request models admit: duration_seconds (ge=1)
\* and additional_seconds (ge=1).
GrantDurations == 1..MaxDur
ExtendDurations == 1..MaxExt

TimerNext ==
    \/ Tick
    \/ \E i \in TimerIds : TimerFire(i)
    \/ \E i \in TimerIds : Expire(i)
    \/ \E i \in TimerIds : OnExpiry(i)

SetModeNext ==
    \/ \E m \in ModeNames : SetModeInvalid(m)
    \/ \E m \in ModeNames : SetModeCheck(m)
    \/ SetModeRevoke
    \/ SetModeCurrent
    \/ SetModeBase

GrantNext ==
    \/ \E d \in GrantDurations : GrantBase(d)
    \/ GrantCurrent
    \/ GrantGrant
    \/ \E e \in ExtendDurations : ExtendCheck(e)
    \/ ExtendRemaining
    \/ ExtendGrant
    \/ RevokeRevoke
    \/ RevokeCurrent

ValidateNext ==
    \/ \E t \in Tools : ValidateBegin(t)
    \/ ValidateIsValid
    \/ ValidateRemaining
    \/ ValidateRaise
    \/ ValidateAllow

StatusNext ==
    \/ GetStatusValid
    \/ GetStatusRemaining
    \/ GetStatusBase
    \/ GetStatusCurrent

Next == TimerNext \/ SetModeNext \/ GrantNext \/ ValidateNext \/ StatusNext

Spec == Init /\ [][Next]_vars

\* A call that has begun runs on: the caller thread is scheduled again and a
\* lock.acquire() returns once the lock is free.  A timer thread inside
\* _expire runs on likewise.
CallRuns ==
    \/ SetModeRevoke \/ SetModeCurrent \/ SetModeBase
    \/ GrantCurrent \/ GrantGrant
    \/ ExtendRemaining \/ ExtendGrant
    \/ RevokeCurrent
    \/ ValidateIsValid \/ ValidateRemaining \/ ValidateRaise \/ ValidateAllow
    \/ GetStatusRemaining \/ GetStatusBase \/ GetStatusCurrent

FairSpec ==
    /\ Spec
    /\ WF_vars(CallRuns)
    /\ \A i \in TimerIds : WF_vars(Expire(i)) /\ WF_vars(OnExpiry(i))

\* The engine when no caller ever calls set_mode.
NoSetModeNext == TimerNext \/ GrantNext \/ ValidateNext \/ StatusNext
NoSetModeSpec == Init /\ [][NoSetModeNext]_vars

\* The engine behind the server's tool endpoint.
ExecuteNext ==
    \/ \E t \in Tools : ExecuteBegin(t)
    \/ ExecuteFormat
    \/ ExecuteValidate
    \/ ExecuteValidated
    \/ ExecuteDispatch

ServerNext == Next \/ ExecuteNext
ServerSpec == Init /\ [][ServerNext]_vars

\* The engine used directly, not through the server: any document is loaded
\* and duration_seconds is an int the engine does not check (line 151).  0
\* stands for the non-positive durations.
NonPositiveDurations == {0}
DirectInit == Construct(Documents)
DirectNext == Next \/ \E d \in NonPositiveDurations : GrantBase(d)
DirectSpec == DirectInit /\ [][DirectNext]_vars

\* ===================================================================
\* Claims
\* ===================================================================

\* No engine method is in progress and no expiry is half done.
Quiescent == pc = "idle" /\ lock = 0

\* C1: validate(t) of a tool t in global_rules.always_blocked ends as
\* GloballyBlocked, never Allow, whatever the current mode, the base mode and
\* the temporary grant are.
C1_GloballyBlocked ==
    (call.op = "validate" /\ call.name \in policy.always_blocked)
        => (pc = "idle" /\ result.outcome = "GloballyBlocked")

\* C1 witness: a globally blocked tool that EMERGENCY's allow list names is
\* refused while a temporary grant is valid and the mode is EMERGENCY.
C1_Witness ==
    /\ call.op = "validate"
    /\ call.name \in policy.always_blocked
    /\ call.name \in policy.modes[EMERGENCY].allowed_tools
    /\ is_valid
    /\ current_mode = EMERGENCY
    /\ result.outcome = "GloballyBlocked"

\* The decision the specification prescribes for tool t in mode m.
Reference(doc, m, t) ==
    CASE t \in doc.always_blocked -> "GloballyBlocked"
      [] t \notin doc.always_blocked /\ t \in doc.modes[m].blocked_tools -> "BlockedInMode"
      [] t \notin doc.always_blocked /\ t \notin doc.modes[m].blocked_tools
           /\ t \notin doc.modes[m].allowed_tools -> "NotWhitelisted"
      [] OTHER -> "Allow"

\* C2: every call validate(t) made in mode m ends with the reference decision
\* for (m, t): GloballyBlocked, else BlockedInMode, else NotWhitelisted, else
\* Allow, the stages taken in this order.
C2_ReferenceDecision ==
    (pc = "idle" /\ call.op = "validate")
        => result.outcome = Reference(policy, vmode, call.name)

\* C3: whenever no temporary grant is active, current_mode equals base_mode.
C3_ModeIsBaseWhenInactive ==
    (Quiescent /\ ~is_active) => current_mode = base_mode

\* C4: after grant_temporary_emergency(d), d > 0, issued at T and with no
\* other engine call since, current_mode is EMERGENCY and the grant is active
\* at every time before T + d, and once the grant has ended (the timer's
\* doing, no call was made) current_mode is back at the base mode.
C4_GrantLastsUntilExpiry ==
    (Quiescent /\ call.op = "grant" /\ call.secs > 0)
        => /\ now < result.expires => (is_active /\ current_mode = EMERGENCY)
           /\ ~is_active => (now >= result.expires /\ current_mode = base_mode)

\* The caller takes the first step of the named engine method.
Begins(op) == pc = "idle" /\ call'.op = op /\ << call, result, pc >> # << call', result', pc' >>

\* Tools that EMERGENCY allows and NORMAL does not.
EmergencyOnly ==
    policy.modes[EMERGENCY].allowed_tools \ policy.modes[NORMAL].allowed_tools

\* C5: once the time of a grant made in NORMAL has elapsed (the grant is no
\* longer valid and the base mode is NORMAL), validate no longer lets a tool
\* pass that only EMERGENCY allows.
C5_NoAllowAfterExpiry ==
    [][(Begins("validate") /\ ~is_valid /\ base_mode = NORMAL
            /\ call'.name \in EmergencyOnly)
         => pc' \notin {"v_allowed_valid", "v_allowed_remaining", "v_allow"}]_vars

\* C6: with no set_mode call, base_mode stays the mode in force before the
\* first grant (NORMAL, the mode the engine starts in), also when grant is
\* called while a grant is active, and once no grant is active current_mode
\* is that mode again.
C6_BaseModeKept ==
    Quiescent => /\ base_mode = NORMAL
                 /\ ~is_active => current_mode = NORMAL

Live(ts) == {i \in TimerIds : ts[i].st # "free"}

\* C7: a grant made while a grant is active replaces it: afterwards exactly
\* one expiry is pending, the one of the new grant and due at now + the new
\* duration, so the replaced grant's expiry can no longer fire.
C7_GrantReplaces ==
    [][(pc = "g_grant" /\ pc' = "idle" /\ is_active)
         => /\ Live(timers') = {timer'}
            /\ timers'[timer'] = [st |-> "waiting", deadline |-> now + call.secs * TicksPerSec,
                                  finished |-> "no"]
            /\ expiry_time' = now + call.secs * TicksPerSec]_vars

\* The caller takes a step of extend_temporary_emergency on a valid grant.
ExtendStep ==
    \/ Begins("extend") /\ is_valid
    \/ pc \in {"x_remaining", "x_grant"} /\ pc' # pc

C9_ExtendAddsExactly ==
    [][(pc = "x_grant" /\ pc' = "idle" /\ is_active)
         => /\ expiry_time' = now + remaining + call.secs * TicksPerSec
            /\ expiry_time' >= expiry_time]_vars

\* C10: extend_temporary_emergency without a valid grant returns at once and
\* raises nothing; it schedules no expiry, leaves current_mode, base_mode and
\* the manager as they are, and the grant is still not valid afterwards.
C10_ExtendWithoutGrant ==
    [][(Begins("extend") /\ ~is_valid)
         => /\ pc' = "idle"
            /\ result'.outcome = "noop"
            /\ UNCHANGED << current_mode, base_mode, is_active, expiry_time, timer,
                            timers, on_expiry_callback, lock >>
            /\ ~is_valid']_vars

\* C10 witness: extend returned "nothing to extend" while no grant is valid.
C10_Witness ==
    /\ Quiescent
    /\ call.op = "extend"
    /\ result.outcome = "noop"
    /\ on_expiry_callback
    /\ ~is_active
    /\ current_mode = base_mode
    /\ Live(timers) = {}

\* A step taken by timer thread i after its function was called (_expire or the
\* expiry callback).
Runs(i) == timers[i].st \in {"fired", "expiring"} /\ timers'[i] # timers[i]

\* C11: when revoke_temporary_emergency returns, the grant is not valid, no time
\* remains and current_mode equals base_mode; and a timer that this revoke
\* cancelled never changes current_mode afterwards.
C11_RevokeIsFinal ==
    [][/\ (pc = "r_current" /\ pc' = "idle")
            => (~is_valid' /\ remaining_time' = None /\ current_mode' = base_mode')
       /\ \A i \in TimerIds :
            (timers[i].finished = "revoke" /\ pc # "r_current" /\ Runs(i))
                => current_mode' = current_mode]_vars

\* C12: a timer whose cancel() was called (by grant, extend, revoke or set_mode)
\* never runs its expiry action: it neither enters _expire nor changes is_active,
\* expiry_time or current_mode.
C12_CancelledNeverRuns ==
    [][\A i \in TimerIds : timers[i].finished # "no" => ~Runs(i)]_vars

\* set_mode took its revoke branch (line 145) in the call being run or last run.
SetModeRevoked == call.op = "set_mode" /\ result.revoked

\* C13: set_mode(m) with a defined m, called while the grant is valid, revokes
\* the grant and returns with current_mode = base_mode = m; from then on, until
\* the next engine call, no timer changes current_mode or base_mode.
C13_SetModeIsPermanent ==
    [][/\ (SetModeRevoked /\ pc = "sm_base" /\ pc' = "idle")
            => (current_mode' = call.name /\ base_mode' = call.name /\ ~is_active')
       /\ (SetModeRevoked /\ pc = "idle" /\ << pc, call, result >>' = << pc, call, result >>)
            => UNCHANGED << current_mode, base_mode >>]_vars

\* C14: set_mode(m) with m not defined in the document fails with InvalidMode
\* and leaves current_mode, base_mode, the grant's flag, expiry time, timer
\* and the timer threads as they were.
C14_InvalidModeChangesNothing ==
    [][(Begins("set_mode") /\ call'.name \notin DOMAIN policy.modes)
          => /\ pc' = "idle"
             /\ result'.outcome = "InvalidMode"
             /\ UNCHANGED << current_mode, base_mode, is_active, expiry_time, timer,
                             timers, on_expiry_callback, lock >>]_vars

\* An undefined mode was refused while a grant was running.
C14_Witness ==
    /\ pc = "idle"
    /\ call.op = "set_mode"
    /\ call.name \notin DOMAIN policy.modes
    /\ result.outcome = "InvalidMode"
    /\ is_valid
    /\ timer # 0
    /\ current_mode = EMERGENCY
    /\ base_mode = NORMAL

\* A statement of the engine call being run (not a timer's step, not the clock).
CallerStep == << pc, call, result >>' # << pc, call, result >>

\* C15: grant_temporary_emergency(d) with d <= 0 changes no state (modes, grant
\* flag, expiry time, timer, scheduled expiries) and ends with an error.
C15_NonPositiveRejected ==
    [][(CallerStep /\ call'.op = "grant" /\ call'.secs <= 0)
          => /\ UNCHANGED << current_mode, base_mode, is_active, expiry_time, timer, timers >>
             /\ pc' = "idle" => result'.outcome \notin {"none", "ok"}]_vars

\* C16: validate always ends with Allow or with one of the three typed policy
\* violations, never with another error.
C16_TypedOutcomesOnly ==
    (pc = "idle" /\ call.op = "validate")
        => result.outcome \in {"Allow", "GloballyBlocked", "BlockedInMode", "NotWhitelisted"}

\* C17: the mode a violation returned by validate reports is the mode whose
\* lists produced the decision (read at line 218), one value of current_mode.
C17_OneModePerDecision ==
    (pc = "idle" /\ call.op = "validate"
        /\ result.outcome \in {"GloballyBlocked", "BlockedInMode", "NotWhitelisted"})
        => result.mode = vmode

\* C20: current_mode and base_mode always name modes the loaded document
\* defines, and validate's lookup of the current mode's rules never fails.
C20_ModesAreDefined ==
    /\ current_mode \in DOMAIN policy.modes
    /\ base_mode \in DOMAIN policy.modes
    /\ result.outcome # "KeyError"

\* The engine's mutating operations run one at a time, each as a whole, on
\* the state (current_mode, base_mode, is_active).  set_mode revokes the grant
\* only when it is still valid, so an active grant past its expiry time stays.
SeqSetMode(s, m) ==
    {[cur |-> m, base |-> m, act |-> a] : a \in (IF s.act THEN {TRUE, FALSE} ELSE {FALSE})}
SeqGrant(s) == [cur |-> EMERGENCY, base |-> s.cur, act |-> TRUE]
SeqExtend(s) == s
SeqRevoke(s) == [cur |-> s.base, base |-> s.base, act |-> FALSE]
SeqExpire(s) == [cur |-> s.base, base |-> s.base, act |-> FALSE]

SeqSuccessors(S) ==
    UNION {SeqSetMode(s, m) : s \in S, m \in {NORMAL, EMERGENCY}}
        \cup {SeqGrant(s) : s \in S} \cup {SeqExtend(s) : s \in S}
        \cup {SeqRevoke(s) : s \in S} \cup {SeqExpire(s) : s \in S}

RECURSIVE SeqClosure(_)
SeqClosure(S) ==
    LET T == S \cup SeqSuccessors(S) IN IF T = S THEN S ELSE SeqClosure(T)

\* Every state some sequential order of operations produces.
SeqStates == SeqClosure({[cur |-> NORMAL, base |-> NORMAL, act |-> FALSE]})

\* C18: whenever no operation and no expiry is under way, the engine is in a
\* state (current_mode, base_mode, grant active) that some sequential order of
\* set_mode, grant, extend, revoke and expiry callbacks produces.
C18_Serializable ==
    Quiescent
        => [cur |-> current_mode, base |-> base_mode, act |-> is_active] \in SeqStates

\* C19: while extend_temporary_emergency replaces the grant it found valid
\* (from its validity check to the grant it installs), an is_valid() or
\* get_temporary_status() call, which needs the lock, never sees the grant
\* inactive.
C19_ReplaceIsAtomic ==
    (pc \in {"x_remaining", "x_grant"} /\ lock = 0) => is_valid

\* The outcome the lists of the mode read at line 218 stand for, by the
\* position validate reached after consulting them.
Decided(position) ==
    IF position \in {"v_blocked_valid", "v_blocked_remaining", "v_blocked_raise"}
    THEN "BlockedInMode"
    ELSE IF position = "v_not_whitelisted" THEN "NotWhitelisted" ELSE "Allow"

\* C21: the outcome of validate is a function of the tool and current_mode
\* only: once the mode's lists have been consulted, the grant (active or not,
\* however much of it remains) does not change the outcome the call ends with.
C21_GrantDoesNotDecide ==
    [][(call.op = "validate" /\ pc # "idle" /\ pc' = "idle" /\ call' = call)
          => result'.outcome = Decided(pc)]_vars

Max(a, b) == IF a > b THEN a ELSE b

\* C22: is_valid() is true exactly when the grant is active and now is before
\* its expiry time; remaining_time() is max(0, expiry time - now) when the
\* grant is active, so never negative, and none otherwise.
C22_ValidAndRemaining ==
    /\ is_valid <=> (is_active /\ expiry_time # None /\ now < expiry_time)
    /\ is_active => /\ expiry_time # None
                    /\ remaining_time = Max(0, expiry_time - now)
                    /\ remaining_time >= 0
    /\ ~is_active => remaining_time = None

\* extend read a remaining time of 0 from a grant that is still flagged active
\* after its expiry time has passed.
C22_Witness ==
    /\ pc = "x_grant"
    /\ remaining = 0
    /\ is_active
    /\ now > expiry_time
    /\ ~is_valid

\* C23: revoke_temporary_emergency called when no grant is active raises
\* nothing and none of its statements changes current_mode, base_mode or the
\* grant (flag, expiry time, timer, timer threads); so a second revoke right
\* after a first leaves the state of the first.
C23_RevokeIdempotent ==
    [][(CallerStep /\ call'.op = "revoke" /\ ~result'.found_active)
          => /\ UNCHANGED << current_mode, base_mode, is_active, expiry_time, timer, timers >>
             /\ pc' = "idle" => result'.outcome = "ok"]_vars

\* C25: whenever the grant is valid, current_mode is EMERGENCY.
C25_ValidMeansEmergency ==
    is_valid => current_mode = EMERGENCY

\* C26: no statement of validate, whether the call allows or denies, changes
\* current_mode, base_mode, the grant's flag, its expiry time, its timer, the
\* timer threads, the expiry callback or the lock.
C26_ValidateHasNoEffect ==
    [][(CallerStep /\ call'.op = "validate")
          => UNCHANGED << current_mode, base_mode, is_active, expiry_time, timer, timers,
                          on_expiry_callback, lock >>]_vars

\* validate allowed a tool in EMERGENCY mode while the grant was valid and its
\* timer pending.
C26_Witness ==
    /\ pc = "idle"
    /\ call.op = "validate"
    /\ result.outcome = "Allow"
    /\ result.mode = EMERGENCY
    /\ is_valid
    /\ timer # 0
    /\ timers[timer].st = "waiting"
    /\ base_mode = NORMAL

\* C27: whenever get_temporary_status returns is_active true, the
\* remaining_seconds it returns is a number; and the grant's expiry time is
\* present exactly while the grant is active.
C27_StatusIsConsistent ==
    /\ (pc = "idle" /\ call.op = "get_status" /\ result.is_active)
            => result.remaining_seconds # None
    /\ is_active <=> expiry_time # None

\* C24: execute_tool calls a tool function only after validate returned Allow
\* for the same request, and the function is the requested tool's; when
\* validate raised a policy violation no tool function is called and the
\* response says policy violation (success false).
C24_DispatchOnlyAfterAllow ==
    /\ result.dispatched # ""
          => (call.op = "execute_tool" /\ result.dispatched = call.name
                /\ result.outcome = "Allow")
    /\ (call.op = "execute_tool" /\ result.outcome \in PolicyViolations)
          => (result.dispatched = ""
                /\ (pc = "idle" => result.response = "policy_violation"))

\* A tool allowed only under the temporary grant was dispatched.
C24_Witness ==
    /\ pc = "idle"
    /\ call.op = "execute_tool"
    /\ call.name \in EmergencyOnly
    /\ result.outcome = "Allow"
    /\ result.dispatched = call.name
    /\ result.response = "success"
    /\ result.is_active

\* C28: no call, once begun, stays unfinished for ever; the lock, once taken
\* for _expire and its callback, does not stay taken for ever; no timer that
\* reached its function stays inside it for ever.
C28_NoDeadlock ==
    /\ []<>(pc = "idle")
    /\ []<>(lock = 0)
    /\ \A i \in TimerIds : []<>(timers[i].st \notin {"fired", "expiring"})

\* A grant call waits for the lock while a timer thread holds it inside
\* _expire, about to run the expiry callback.
C28_Witness ==
    /\ pc = "g_grant"
    /\ lock # 0
    /\ timers[lock].st = "expiring"
    /\ on_expiry_callback

====
